---- MODULE Spec2Model ----
(***************************************************************************)
(* Model of main_utils.main: the master-calibration-frame cache of the     *)
(* time-series photometry pipeline.                                        *)
(*                                                                         *)
(* One invocation of main runs three loops one after the other:            *)
(*   lines 80-89    load loop     over sorted(master_fpath)                *)
(*   lines 91-106   build loop    over sorted(master_fpath)                *)
(*   lines 107-121  rereduce loop over sorted(calib_fpath), if rereduce    *)
(* Each loop iteration is one action.  Categories (imtype) are numbered    *)
(* 1..NumCats by their rank in lexicographic order.  Every category has    *)
(* its own persisted file and its own raw file (no two configured paths    *)
(* name the same file); raw paths are strings, persisted paths are strings *)
(* or null.  Objects are tagged records.                                   *)
(***************************************************************************)
EXTENDS Integers, Sequences, FiniteSets, TLC

NumCats == 2

Category == 1..NumCats

VARIABLES
    master_fpath,    \* config_settings['master']: category -> path or None
    calib_fpath,     \* config_settings['calib']:  category -> raw path
    disk,            \* content of the file each category's persisted path names
    rawdisk,         \* content of the file each category's raw path names
    rereduce,        \* the rereduce argument of the running invocation
    master_ccddata,  \* the in-memory result mapping of the running invocation
    pc,              \* position of the invocation
    idx,             \* index of the running loop in its sorted key list
    err,             \* the exception that ended the invocation, if any
    log,             \* the file and collaborator operations of the invocation, in order
    disk0,           \* persisted files as they were when the invocation started
    prev,            \* summary of the previous invocation
    args             \* the command line of the script entry, once it has run

vars == <<master_fpath, calib_fpath, disk, rawdisk, rereduce, master_ccddata,
          pc, idx, err, log, disk0, prev, args>>

----------------------------------------------------------------------------
(* Values *)

None == [t |-> "None"]

Str(chars) == [t |-> "str", s |-> chars]

NoFile == [t |-> "nofile"]

Garbage == [t |-> "garbage"]

\* Raw exposures of a category: the ones on disk now, and the older ones a
\* previously persisted master frame was made from.
RawData(c) == [t |-> "spe", cat |-> c, ver |-> 1]

OldRawData(c) == [t |-> "spe", cat |-> c, ver |-> 0]

NoErr == [kind |-> "none", cat |-> 0]

Error(kind, c) == [kind |-> kind, cat |-> c]

Event(op, c) == [op |-> op, cat |-> c]

----------------------------------------------------------------------------
(* os.path *)

\* Index of the last occurrence of ch in p, 0 if there is none (str.rfind, 1-based).
rfind(p, ch) ==
    LET hits == {i \in 1..Len(p) : p[i] = ch}
    IN  IF hits = {} THEN 0 ELSE CHOOSE i \in hits : \A j \in hits : j <= i

basename(p) == SubSeq(p, rfind(p, "/") + 1, Len(p))

\* The extension of p: from the last dot of the last path component, unless
\* that component has only dots before it (a leading dot starts no extension).
splitext_ext(p) ==
    LET sepIndex == rfind(p, "/")
        dotIndex == rfind(p, ".")
    IN  IF dotIndex > sepIndex
           /\ \E k \in (sepIndex + 1)..(dotIndex - 1) : p[k] # "."
        THEN SubSeq(p, dotIndex, Len(p))
        ELSE <<>>

isfile(content) == content.t # "nofile"

PKL == <<".", "p", "k", "l">>

----------------------------------------------------------------------------
(* pickle and the utils collaborators *)

pickle_dump(obj) == [t |-> "pickle", obj |-> obj]

pickle_ok(bytes) == bytes.t = "pickle"

pickle_load(bytes) == IF pickle_ok(bytes) THEN bytes.obj ELSE None

spe_to_dict(content) == [t |-> "dict", frames |-> content]

create_master_calib(dobj) == [t |-> "ccddata", from |-> dobj]

\* spe_to_dict raises when the raw path names no file, or when the file is
\* unreadable or malformed (ok = FALSE).
spe_to_dict_raises(content, ok) == ~isfile(content) \/ ~ok

\* create_master_calib raises when it rejects the dataset (ok = FALSE).
create_master_calib_raises(dobj, ok) == ~ok

----------------------------------------------------------------------------
(* The conditions of main *)

CanLoad_Never(mfpath, content) == FALSE

\* line 83: the persisted file is loaded.
CanLoad(mfpath, content) ==
    isfile(content) /\ splitext_ext(basename(mfpath.s)) = PKL

MustBuild_Always(ccddata) == TRUE

\* line 92: the category is still to be built.
MustBuild(ccddata) == ccddata = None

CanWrite_UpperCase(mfpath) ==
    mfpath # None /\ splitext_ext(basename(mfpath.s)) = <<".", "P", "K", "L">>

CanWrite_NoExtCheck(mfpath) == mfpath # None

\* lines 100-102 (and 115-117): the built frame is written to the persisted path.
CanWrite(mfpath) ==
    mfpath # None /\ splitext_ext(basename(mfpath.s)) = PKL

\* sorted(d): the keys of a dict in ascending order.
RECURSIVE sorted(_)
sorted(S) ==
    IF S = {} THEN <<>>
    ELSE LET m == CHOOSE x \in S : \A y \in S : x <= y
         IN  <<m>> \o sorted(S \ {m})

\* The keys of 'master' in descending order.
mkeys_Descending ==
    LET up == sorted(DOMAIN master_fpath)
    IN  [i \in 1..Len(up) |-> up[Len(up) + 1 - i]]

mkeys == sorted(DOMAIN master_fpath)

ckeys == sorted(DOMAIN calib_fpath)

\* d[k] = v on a dict.
SetItem(d, k, v) == [x \in DOMAIN d \cup {k} |-> IF x = k THEN v ELSE d[x]]

\* After, with the build loop left after its first iteration.
After_BuildOnce(phase, i) ==
    LET toRereduce(j) == IF rereduce' /\ j <= Len(sorted(DOMAIN calib_fpath))
                         THEN <<"rereduce", j>> ELSE <<"done", 0>>
        toBuild(j)    == IF j = 1 /\ j <= Len(sorted(DOMAIN master_fpath))
                         THEN <<"build", j>> ELSE toRereduce(1)
        toLoad(j)     == IF j <= Len(sorted(DOMAIN master_fpath))
                         THEN <<"load", j>> ELSE toBuild(1)
    IN  CASE phase = "load"     -> toLoad(i)
          [] phase = "build"    -> toBuild(i)
          [] phase = "rereduce" -> toRereduce(i)

\* After, with the load loop and the build loop fused into one loop that
\* loads a category and builds it on a miss before it turns to the next.
After_Fused(phase, i) ==
    LET toRereduce(j) == IF rereduce' /\ j <= Len(sorted(DOMAIN calib_fpath))
                         THEN <<"rereduce", j>> ELSE <<"done", 0>>
        toLoad(j)     == IF j <= Len(sorted(DOMAIN master_fpath))
                         THEN <<"load", j>> ELSE toRereduce(1)
    IN  CASE phase = "load"     -> IF pc = "load" THEN <<"build", i - 1>> ELSE toLoad(i)
          [] phase = "build"    -> toLoad(i)
          [] phase = "rereduce" -> toRereduce(i)

\* Where control goes when loop `phase` is about to run iteration i:
\* into the iteration, or on to the next loop that has one, or to the return.
After(phase, i) ==
    LET toRereduce(j) == IF rereduce' /\ j <= Len(ckeys)
                         THEN <<"rereduce", j>> ELSE <<"done", 0>>
        toBuild(j)    == IF j <= Len(mkeys) THEN <<"build", j>> ELSE toRereduce(1)
        toLoad(j)     == IF j <= Len(mkeys) THEN <<"load", j>> ELSE toBuild(1)
    IN  CASE phase = "load"     -> toLoad(i)
          [] phase = "build"    -> toBuild(i)
          [] phase = "rereduce" -> toRereduce(i)

----------------------------------------------------------------------------
(* Initial states: every configuration and filesystem over the sample paths *)

PersistedPaths ==
    { <<"d", "/", "m", ".", "p", "k", "l">>,     \* d/m.pkl
      <<"m", ".", "P", "K", "L">>,               \* m.PKL
      <<".", "p", "k", "l">> }                   \* .pkl

RawPath == <<"r", ".", "s", "p", "e">>

StaleFrame(c) == create_master_calib(spe_to_dict(OldRawData(c)))

\* Renaming of the categories: the identity, unless the second invocation runs
\* on a configuration whose categories were renamed.
SameNames == [c \in Category |-> c]

NoPrev == [valid |-> FALSE, rereduce |-> FALSE, cache |-> <<>>, err |-> NoErr,
           log |-> <<>>, disk |-> <<>>, perm |-> SameNames]

\* What the configuration and the filesystem hold for one category: its entry
\* in 'master' (no key, null, or a path), the file at that path, its entry in
\* 'calib' (no key, or a path) and whether a raw file is at that path.
CategorySetups ==
    { s \in [ mkey : BOOLEAN,
              mfpath : {None} \cup {Str(p) : p \in PersistedPaths},
              mfile : {"nofile", "garbage", "pickle"},
              ckey : BOOLEAN,
              cfile : BOOLEAN ] :
        /\ (~s.mkey => s.mfpath = None)
        /\ (s.mfpath = None => s.mfile = "nofile")
        /\ (~s.ckey => ~s.cfile) }

\* The state before main is first invoked, each category set up from `setups`.
InitFrom(setups) ==
    /\ \E setup \in [Category -> setups] :
          /\ master_fpath = [c \in {k \in Category : setup[k].mkey} |-> setup[c].mfpath]
          /\ calib_fpath = [c \in {k \in Category : setup[k].ckey} |-> Str(RawPath)]
          /\ disk = [c \in Category |->
                        CASE setup[c].mfile = "nofile"  -> NoFile
                          [] setup[c].mfile = "garbage" -> Garbage
                          [] setup[c].mfile = "pickle"  -> pickle_dump(StaleFrame(c))]
          /\ rawdisk = [c \in Category |->
                        IF setup[c].cfile THEN RawData(c) ELSE NoFile]
    /\ rereduce = FALSE
    /\ master_ccddata = <<>>
    /\ pc = "idle"
    /\ idx = 0
    /\ err = NoErr
    /\ log = <<>>
    /\ disk0 = disk
    /\ prev = NoPrev
    /\ args = None

Init == InitFrom(CategorySetups)

\* The setups without the path .pkl, and with m.PKL naming no corrupt file.
RenamedSetups ==
    { s \in CategorySetups :
        /\ s.mfpath # Str(<<".", "p", "k", "l">>)
        /\ s.mfile = "garbage" => s.mfpath = Str(<<"d", "/", "m", ".", "p", "k", "l">>) }

InitRenamed == InitFrom(RenamedSetups)

----------------------------------------------------------------------------
(* main *)

\* lines 42-79: main is entered with rereduce = r; the result mapping is empty.
Enter(r) ==
    /\ rereduce' = r
    /\ master_ccddata' = <<>>
    /\ log' = <<>>
    /\ err' = NoErr
    /\ disk0' = disk
    /\ pc' = After("load", 1)[1]
    /\ idx' = After("load", 1)[2]
    /\ UNCHANGED <<master_fpath, calib_fpath, disk, rawdisk, args>>

\* The first invocation.
Main ==
    /\ pc = "idle"
    /\ \E r \in BOOLEAN : Enter(r)
    /\ UNCHANGED prev

\* The same command is run a second time after the invocation has ended.
MainAgain ==
    /\ pc \in {"done", "aborted"}
    /\ ~prev.valid
    /\ Enter(rereduce)
    /\ prev' = [valid |-> TRUE, rereduce |-> rereduce, cache |-> master_ccddata,
                err |-> err, log |-> log, disk |-> disk, perm |-> SameNames]

\* Every other naming of the categories: sorted() visits the renamed keys in
\* another order.
Renamings ==
    { f \in [Category -> Category] :
        /\ \A a, b \in Category : a # b => f[a] # f[b]
        /\ f # SameNames }

OldName(f, c) == CHOOSE k \in Category : f[k] = c

\* The categories are renamed in the configuration, the files are put back as
\* they were before the invocation, and the same command is run on them.  (The
\* key lists keep their lengths, so After counts the same iterations.)
MainRenamed ==
    /\ pc \in {"done", "aborted"}
    /\ ~prev.valid
    /\ \E f \in Renamings :
          /\ master_fpath' = [c \in {f[k] : k \in DOMAIN master_fpath} |->
                                 master_fpath[OldName(f, c)]]
          /\ calib_fpath' = [c \in {f[k] : k \in DOMAIN calib_fpath} |->
                                calib_fpath[OldName(f, c)]]
          /\ disk' = [c \in Category |-> disk0[OldName(f, c)]]
          /\ rawdisk' = [c \in Category |-> rawdisk[OldName(f, c)]]
          /\ prev' = [valid |-> TRUE, rereduce |-> rereduce, cache |-> master_ccddata,
                      err |-> err, log |-> log, disk |-> disk, perm |-> f]
    /\ rereduce' = rereduce
    /\ master_ccddata' = <<>>
    /\ log' = <<>>
    /\ err' = NoErr
    /\ disk0' = disk'
    /\ pc' = After("load", 1)[1]
    /\ idx' = After("load", 1)[2]
    /\ UNCHANGED args

\* An iteration of loop `phase` ends: with exception e, or by going on.
Finish(phase, newlog, newcache, newdisk, e) ==
    /\ log' = newlog
    /\ master_ccddata' = newcache
    /\ disk' = newdisk
    /\ err' = e
    /\ rereduce' = rereduce
    /\ IF e = NoErr
       THEN /\ pc' = After(phase, idx + 1)[1]
            /\ idx' = After(phase, idx + 1)[2]
       ELSE /\ pc' = "aborted"
            /\ idx' = idx
    /\ UNCHANGED <<master_fpath, calib_fpath, rawdisk, disk0, prev, args>>

\* LoadStep, with a file that cannot be unpickled taken for a missing one.
LoadStep_CorruptIsMiss ==
    /\ pc = "load"
    /\ LET imtype == mkeys[idx]
           mfpath == master_fpath[imtype]
       IN  IF mfpath = None
           THEN Finish("load", log, master_ccddata, disk, Error("AttributeError", imtype))
           ELSE IF CanLoad(mfpath, disk[imtype])
           THEN Finish("load", Append(log, Event("load", imtype)),
                       SetItem(master_ccddata, imtype, pickle_load(disk[imtype])),
                       disk, NoErr)
           ELSE Finish("load", log, SetItem(master_ccddata, imtype, None), disk, NoErr)

\* lines 80-89: one iteration of the load loop.
LoadStep ==
    /\ pc = "load"
    /\ LET imtype == mkeys[idx]
           mfpath == master_fpath[imtype]
       IN  IF mfpath = None
           THEN \* line 82: os.path.basename(None) raises
                Finish("load", log, master_ccddata, disk, Error("AttributeError", imtype))
           ELSE IF CanLoad(mfpath, disk[imtype])
           THEN IF pickle_ok(disk[imtype])
                THEN Finish("load", Append(log, Event("load", imtype)),
                            SetItem(master_ccddata, imtype, pickle_load(disk[imtype])),
                            disk, NoErr)
                ELSE Finish("load", Append(log, Event("load", imtype)),
                            master_ccddata, disk, Error("UnpicklingError", imtype))
           ELSE Finish("load", log, SetItem(master_ccddata, imtype, None), disk, NoErr)

\* Rebuild, with the write to the persisted path done first, from the entry
\* held before the raw file is read.
Rebuild_WriteBeforeBuild(imtype, rd_ok, bd_ok) ==
    LET dobj   == spe_to_dict(rawdisk[imtype])
        frame  == create_master_calib(dobj)
        held   == IF imtype \in DOMAIN master_ccddata
                  THEN master_ccddata[imtype] ELSE None
        canw   == imtype \in DOMAIN master_fpath /\ CanWrite(master_fpath[imtype])
        log0   == IF canw THEN Append(log, Event("write", imtype)) ELSE log
        disk1  == IF canw THEN [disk EXCEPT ![imtype] = pickle_dump(held)] ELSE disk
        log1   == Append(log0, Event("read", imtype))
        log2   == Append(log1, Event("build", imtype))
    IN  IF spe_to_dict_raises(rawdisk[imtype], rd_ok)
        THEN [log |-> log1, cache |-> master_ccddata, disk |-> disk1,
              err |-> Error("ReaderError", imtype)]
        ELSE IF create_master_calib_raises(dobj, bd_ok)
        THEN [log |-> log2, cache |-> master_ccddata, disk |-> disk1,
              err |-> Error("BuilderError", imtype)]
        ELSE [log |-> log2, cache |-> SetItem(master_ccddata, imtype, frame),
              disk |-> disk1,
              err |-> IF imtype \in DOMAIN master_fpath
                      THEN NoErr ELSE Error("KeyError", imtype)]

\* Rebuild, with a category that master_fpath does not name kept in the
\* mapping and not written, in place of the KeyError.
Rebuild_TolerantLookup(imtype, rd_ok, bd_ok) ==
    LET dobj   == spe_to_dict(rawdisk[imtype])
        frame  == create_master_calib(dobj)
        log1   == Append(log, Event("read", imtype))
        log2   == Append(log1, Event("build", imtype))
        cache2 == SetItem(master_ccddata, imtype, frame)
    IN  IF spe_to_dict_raises(rawdisk[imtype], rd_ok)
        THEN [log |-> log1, cache |-> master_ccddata, disk |-> disk, err |-> Error("ReaderError", imtype)]
        ELSE IF create_master_calib_raises(dobj, bd_ok)
        THEN [log |-> log2, cache |-> master_ccddata, disk |-> disk, err |-> Error("BuilderError", imtype)]
        ELSE IF imtype \in DOMAIN master_fpath /\ CanWrite(master_fpath[imtype])
        THEN [log |-> Append(log2, Event("write", imtype)), cache |-> cache2,
              disk |-> [disk EXCEPT ![imtype] = pickle_dump(frame)], err |-> NoErr]
        ELSE [log |-> log2, cache |-> cache2, disk |-> disk, err |-> NoErr]

\* lines 97-106 (and 112-121): read the raw file, build the frame, keep it,
\* write it to the persisted path.  The result is the new log, mapping and
\* disk and the exception raised, if any.
Rebuild(imtype, rd_ok, bd_ok) ==
    LET dobj   == spe_to_dict(rawdisk[imtype])
        frame  == create_master_calib(dobj)
        log1   == Append(log, Event("read", imtype))
        log2   == Append(log1, Event("build", imtype))
        cache2 == SetItem(master_ccddata, imtype, frame)
    IN  IF spe_to_dict_raises(rawdisk[imtype], rd_ok)
        THEN [log |-> log1, cache |-> master_ccddata, disk |-> disk,
              err |-> Error("ReaderError", imtype)]
        ELSE IF create_master_calib_raises(dobj, bd_ok)
        THEN [log |-> log2, cache |-> master_ccddata, disk |-> disk,
              err |-> Error("BuilderError", imtype)]
        ELSE IF imtype \notin DOMAIN master_fpath
        THEN \* line 114: master_fpath[imtype] raises
             [log |-> log2, cache |-> cache2, disk |-> disk,
              err |-> Error("KeyError", imtype)]
        ELSE IF CanWrite(master_fpath[imtype])
        THEN [log |-> Append(log2, Event("write", imtype)), cache |-> cache2,
              disk |-> [disk EXCEPT ![imtype] = pickle_dump(frame)], err |-> NoErr]
        ELSE [log |-> log2, cache |-> cache2, disk |-> disk, err |-> NoErr]

\* lines 91-106: one iteration of the build loop.
BuildStep ==
    /\ pc = "build"
    /\ LET imtype == mkeys[idx]
       IN  IF ~MustBuild(master_ccddata[imtype])
           THEN Finish("build", log, master_ccddata, disk, NoErr)
           ELSE IF imtype \notin DOMAIN calib_fpath
           THEN \* line 93: calib_fpath[imtype] raises
                Finish("build", log, master_ccddata, disk, Error("KeyError", imtype))
           ELSE IF ~isfile(rawdisk[imtype])
           THEN Finish("build", log, master_ccddata, disk, NoErr)
           ELSE \E rd_ok, bd_ok \in BOOLEAN :
                   LET o == Rebuild(imtype, rd_ok, bd_ok)
                   IN  Finish("build", o.log, o.cache, o.disk, o.err)

\* lines 107-121: one iteration of the rereduce loop.
RereduceStep ==
    /\ pc = "rereduce"
    /\ LET imtype == ckeys[idx]
       IN  \E rd_ok, bd_ok \in BOOLEAN :
              LET o == Rebuild(imtype, rd_ok, bd_ok)
              IN  Finish("rereduce", o.log, o.cache, o.disk, o.err)

JSON == <<".", "j", "s", "o", "n">>

\* Values of --fconfig: c.json, c.txt.
ConfigPaths ==
    { <<"c", ".", "j", "s", "o", "n">>,
      <<"c", ".", "t", "x", "t">> }

\* The built-in sorted takes one positional argument (the iterable) and no
\* keyword other than cmp, key and reverse; any other call raises TypeError.
sorted_accepts(npositional, keywords) ==
    npositional = 1 /\ keywords \subseteq {"cmp", "key", "reverse"}

\* lines 126-152: the module is run as a script.  The process ends with IOError
\* when --fconfig names no file or has another extension than '.json'; else
\* line 152 evaluates sorted(**args.__dict__) and passes its value to main.
Script ==
    /\ pc = "idle"
    /\ \E fconfig \in ConfigPaths, exists \in BOOLEAN, r \in BOOLEAN :
          LET ns == [fconfig |-> fconfig, rereduce |-> r, verbose |-> 0]
          IN  /\ args' = [t |-> "Namespace", dict |-> ns, isfile |-> exists]
              /\ IF ~exists \/ splitext_ext(fconfig) # JSON
                 THEN /\ pc' = "exited"
                      /\ err' = Error("IOError", 0)
                      /\ UNCHANGED <<rereduce, master_ccddata, log, disk0, idx>>
                 ELSE IF ~sorted_accepts(0, DOMAIN ns)
                 THEN /\ pc' = "exited"
                      /\ err' = Error("TypeError", 0)
                      /\ UNCHANGED <<rereduce, master_ccddata, log, disk0, idx>>
                 ELSE \* main(<the sorted list>): rereduce takes its default
                      /\ rereduce' = FALSE
                      /\ master_ccddata' = <<>>
                      /\ log' = <<>>
                      /\ err' = NoErr
                      /\ disk0' = disk
                      /\ pc' = After("load", 1)[1]
                      /\ idx' = After("load", 1)[2]
    /\ UNCHANGED <<master_fpath, calib_fpath, disk, rawdisk, prev>>

Next == Main \/ LoadStep \/ BuildStep \/ RereduceStep

Spec == Init /\ [][Next]_vars

\* Two invocations in sequence on the same configuration and filesystem.
NextTwice == Next \/ MainAgain

SpecTwice == Init /\ [][NextTwice]_vars

\* An invocation, then one on the same files with the categories renamed.
NextRenamed == Next \/ MainRenamed

SpecRenamed == InitRenamed /\ [][NextRenamed]_vars

\* The module run as a script, or main called directly.
NextScript == Next \/ Script

SpecScript == Init /\ [][NextScript]_vars

----------------------------------------------------------------------------
(* Vocabulary of the properties *)

\* How many times operation op was performed for category c in the invocation.
Count(op, c) == Cardinality({i \in 1..Len(log) : log[i] = Event(op, c)})

CountIn(l, op, c) == Cardinality({i \in 1..Len(l) : l[i] = Event(op, c)})

Running == pc # "idle"

Ended == pc \in {"done", "aborted"}

\* c has a persisted path (a string) with the recognized extension.
HasPklPath(c) ==
    /\ c \in DOMAIN master_fpath
    /\ master_fpath[c] # None
    /\ splitext_ext(basename(master_fpath[c].s)) = PKL

\* c has a persisted path (a string) with another extension.
HasOtherExtPath(c) ==
    /\ c \in DOMAIN master_fpath
    /\ master_fpath[c] # None
    /\ splitext_ext(basename(master_fpath[c].s)) # PKL

\* c's persisted path is null.
HasNullPath(c) == c \in DOMAIN master_fpath /\ master_fpath[c] = None

\* When the invocation started, c had a persisted file with the recognized extension.
ValidPersisted(c) == HasPklPath(c) /\ disk0[c] # NoFile

\* c has a raw path that names an existing file.
UsableRaw(c) == c \in DOMAIN calib_fpath /\ rawdisk[c] # NoFile

\* The frame the builder makes from c's current raw file.
FreshFrame(c) == create_master_calib(spe_to_dict(rawdisk[c]))

Absent(c) == c \notin DOMAIN master_ccddata \/ master_ccddata[c] = None

CollaboratorFailed(e) == e.kind \in {"ReaderError", "BuilderError"}

----------------------------------------------------------------------------
(* Properties *)

\* C1 (reuse law): with rereduce false, a category whose persisted path names
\* an existing '.pkl' file is never read raw, never built and its file never
\* written, and when main returns its entry is the frame unpickled from that file.
ReuseLaw ==
    \A c \in Category :
        (Running /\ ~rereduce /\ ValidPersisted(c)) =>
            /\ Count("read", c) = 0
            /\ Count("build", c) = 0
            /\ Count("write", c) = 0
            /\ disk[c] = disk0[c]
            /\ pc = "done" =>
                  /\ c \in DOMAIN master_ccddata
                  /\ pickle_ok(disk0[c])
                  /\ master_ccddata[c] = disk0[c].obj

\* C1 witness: main returned with rereduce false, having reused a persisted
\* frame whose raw file was there to build from, and having built another category.
ReuseLawWitness ==
    /\ pc = "done"
    /\ ~rereduce
    /\ \E c, d \in Category :
          /\ ValidPersisted(c)
          /\ UsableRaw(c)
          /\ master_ccddata[c] = StaleFrame(c)
          /\ d # c
          /\ Count("build", d) = 1

\* C2 (at most one build): in an invocation the raw reader and the builder are
\* each invoked at most once per category, and when main returns with rereduce
\* true they were invoked exactly once for every category with a usable raw input.
AtMostOneBuild ==
    \A c \in Category :
        /\ Count("read", c) <= 1
        /\ Count("build", c) <= 1
        /\ (pc = "done" /\ rereduce /\ UsableRaw(c)) =>
              (Count("read", c) = 1 /\ Count("build", c) = 1)

\* C3 (force-rebuild write-through): when main returns with rereduce true, every
\* category with a usable raw input and a '.pkl' persisted path has had its
\* file written in this invocation, and the file and the entry both hold the
\* frame built from the current raw input.
ForceRebuildWriteThrough ==
    (pc = "done" /\ rereduce) =>
        \A c \in Category :
            (UsableRaw(c) /\ HasPklPath(c)) =>
                /\ Count("write", c) >= 1
                /\ disk[c] = pickle_dump(FreshFrame(c))
                /\ c \in DOMAIN master_ccddata
                /\ master_ccddata[c] = FreshFrame(c)

\* C3 witness: main returned with rereduce true and replaced a valid persisted
\* frame made from older raw data.
ForceRebuildWriteThroughWitness ==
    /\ pc = "done"
    /\ rereduce
    /\ \E c \in Category :
          /\ UsableRaw(c)
          /\ HasPklPath(c)
          /\ disk0[c] = pickle_dump(StaleFrame(c))
          /\ disk[c] # disk0[c]

\* C4 (force-rebuild skips loading): with rereduce true no persisted file is
\* opened or unpickled, and no invocation ends on an unpickling error.
ForceRebuildSkipsLoad ==
    rereduce =>
        /\ \A c \in Category : Count("load", c) = 0
        /\ err.kind # "UnpicklingError"

\* C5 (idempotence): a second invocation with rereduce false, after a first one
\* with rereduce false on the same configuration and files, with no collaborator
\* failure in either, writes no file and ends with the same result mapping as
\* the first.
Idempotence ==
    (prev.valid /\ ~prev.rereduce /\ ~rereduce /\ ~CollaboratorFailed(prev.err)) =>
        /\ \A c \in Category : Count("write", c) = 0
        /\ (Ended /\ ~CollaboratorFailed(err)) => master_ccddata = prev.cache

\* C5 witness: the second of two returned invocations with rereduce false loads
\* the frame the first one built and wrote.
IdempotenceWitness ==
    /\ prev.valid
    /\ ~prev.rereduce
    /\ ~rereduce
    /\ prev.err = NoErr
    /\ pc = "done"
    /\ \E c \in Category :
          /\ CountIn(prev.log, "write", c) = 1
          /\ Count("load", c) = 1
          /\ master_ccddata[c] = FreshFrame(c)

\* C6 (extension gate): a persisted path with an extension other than '.pkl'
\* is never unpickled into the result mapping and its file is never written,
\* for either value of rereduce and whatever the file holds.
ExtensionGate ==
    \A c \in Category :
        (Running /\ HasOtherExtPath(c)) =>
            /\ Count("load", c) = 0
            /\ Count("write", c) = 0
            /\ disk[c] = disk0[c]
            /\ (c \in DOMAIN master_ccddata /\ pickle_ok(disk0[c])) =>
                  master_ccddata[c] # disk0[c].obj

\* C6 witness: main returned with rereduce true after building a category
\* whose persisted path m.PKL names an existing file holding a pickled frame.
ExtensionGateWitness ==
    /\ pc = "done"
    /\ rereduce
    /\ \E c \in Category :
          /\ HasOtherExtPath(c)
          /\ disk0[c] = pickle_dump(StaleFrame(c))
          /\ Count("build", c) >= 1
          /\ master_ccddata[c] = FreshFrame(c)

\* C7 (missing-everything): a category with a non-null persisted path or a raw
\* path, with neither a valid persisted frame nor a usable raw input, is never
\* read raw nor built, does not end the invocation with an exception, and is
\* absent from the result when main returns.
MissingEverything ==
    \A c \in Category :
        (/\ Running
         /\ c \in DOMAIN master_fpath \cup DOMAIN calib_fpath
         /\ ~HasNullPath(c)
         /\ ~ValidPersisted(c)
         /\ ~UsableRaw(c)) =>
            /\ Count("read", c) = 0
            /\ Count("build", c) = 0
            /\ err.cat # c
            /\ pc = "done" => Absent(c)

\* C8 (mismatched maps): a category that is a key of only one of the two maps
\* never ends the invocation with the missing-key exception.
MismatchedMapsTolerated ==
    \A c \in Category :
        (c \in DOMAIN master_fpath) # (c \in DOMAIN calib_fpath) =>
            err # Error("KeyError", c)

\* C9 (null persisted path): a category whose persisted path is null does not
\* end the invocation with an exception, is never loaded nor written, and when
\* main returns with a usable raw input its entry is the frame built from it.
NullPathMeansNoCaching ==
    \A c \in Category :
        HasNullPath(c) =>
            /\ err.cat # c
            /\ Count("load", c) = 0
            /\ Count("write", c) = 0
            /\ (pc = "done" /\ UsableRaw(c)) =>
                  (c \in DOMAIN master_ccddata /\ master_ccddata[c] = FreshFrame(c))

\* C10 (no durable side effect of a failing category): when the invocation ends
\* because the raw reader or the builder failed for a category, that category's
\* persisted file is what it was when the invocation started and was not
\* written in the invocation.
NoWriteForFailedCategory ==
    (pc = "aborted" /\ CollaboratorFailed(err)) =>
        /\ disk[err.cat] = disk0[err.cat]
        /\ Count("write", err.cat) = 0

\* C11 (miss path builds and persists): when main returns with rereduce false,
\* every category of the configuration with no valid persisted frame and a
\* usable raw input has been read and built once, its entry is the built frame,
\* and the frame was written exactly when its persisted path is a '.pkl' path.
MissPathBuildsAndPersists ==
    \A c \in Category :
        (/\ pc = "done"
         /\ ~rereduce
         /\ c \in DOMAIN master_fpath \cup DOMAIN calib_fpath
         /\ ~ValidPersisted(c)
         /\ UsableRaw(c)) =>
            /\ Count("read", c) = 1
            /\ Count("build", c) = 1
            /\ c \in DOMAIN master_ccddata
            /\ master_ccddata[c] = FreshFrame(c)
            /\ (Count("write", c) = 1) <=> HasPklPath(c)
            /\ HasPklPath(c) => disk[c] = pickle_dump(FreshFrame(c))

\* The second invocation ran on the first one's files with the categories renamed.
Renamed == prev.valid /\ prev.perm # SameNames

\* Category c of the first invocation and its renamed self in the second have
\* the same file, written in both invocations or in neither.
SameFiles(c) ==
    LET n == prev.perm[c]
    IN  /\ prev.disk[c] = disk[n]
        /\ (CountIn(prev.log, "write", c) > 0) <=> (Count("write", n) > 0)

\* ... and the same entry, or none, in the result mapping.
SameOutcome(c) ==
    LET n == prev.perm[c]
    IN  /\ SameFiles(c)
        /\ (c \in DOMAIN prev.cache) <=> (n \in DOMAIN master_ccddata)
        /\ c \in DOMAIN prev.cache => prev.cache[c] = master_ccddata[n]

\* Both invocations ended the same way as far as the collaborators go: main
\* returned, or the same collaborator failed at the same call for the same
\* category.
SameCollaboratorOutcome ==
    IF CollaboratorFailed(prev.err)
    THEN LET c == prev.err.cat
             n == prev.perm[c]
         IN  /\ err = Error(prev.err.kind, n)
             /\ CountIn(prev.log, "read", c) = Count("read", n)
             /\ CountIn(prev.log, "build", c) = Count("build", n)
    ELSE prev.err = NoErr /\ err = NoErr

ScriptEntryReachesMain ==
    (/\ args # None
     /\ args.isfile
     /\ splitext_ext(args.dict.fconfig) = JSON) =>
        pc # "exited"

\* C14 (persist only after a successful build): every write to a category's
\* persisted path comes right after a raw read and a build of that category
\* that both succeeded in the same invocation, the file then holds the pickled
\* result of that build, and no persisted file changes without such a write.
PersistOnlyAfterBuild ==
    /\ \A i \in 1..Len(log) :
          log[i].op = "write" =>
              /\ i >= 3
              /\ log[i - 2] = Event("read", log[i].cat)
              /\ log[i - 1] = Event("build", log[i].cat)
    /\ \A c \in Category :
          /\ Count("write", c) > 0 =>
                /\ UsableRaw(c)
                /\ disk[c] = pickle_dump(FreshFrame(c))
                /\ c \in DOMAIN master_ccddata
                /\ master_ccddata[c] = FreshFrame(c)
          /\ Count("write", c) = 0 => disk[c] = disk0[c]

\* C14 witness: main returned having created the persisted file of one
\* category from its raw file, while another category's file was left alone.
PersistOnlyAfterBuildWitness ==
    /\ pc = "done"
    /\ \E c, d \in Category :
          /\ Count("write", c) = 1
          /\ disk0[c] = NoFile
          /\ disk[c] = pickle_dump(FreshFrame(c))
          /\ d # c
          /\ Count("write", d) = 0
          /\ disk0[d] # NoFile

IsLoad(e) == e.op = "load"

IsRead(e) == e.op = "read"

Ascending(q, from, to) == \A i, j \in from..to : i < j => q[i].cat < q[j].cat

\* C15 (one category at a time, in sorted order): every operation on a category
\* comes before every operation on a category that sorts after it.
OneCategoryAtATime ==
    \A i, j \in 1..Len(log) : i < j => log[i].cat <= log[j].cat

\* C15 amended: the load attempts come first, in sorted order; then the raw
\* reads come in sorted order, in one pass without rereduce and in at most two
\* passes with it; and a build comes right after the raw read, a write right
\* after the build, of the same category.
SortedWithinEachLoop ==
    LET loads == SelectSeq(log, IsLoad)
        reads == SelectSeq(log, IsRead)
    IN  /\ Ascending(loads, 1, Len(loads))
        /\ \A i, j \in 1..Len(log) : (log[j].op = "load" /\ i < j) => log[i].op = "load"
        /\ \E k \in 0..Len(reads) :
              /\ Ascending(reads, 1, k)
              /\ Ascending(reads, k + 1, Len(reads))
              /\ ~rereduce => k = Len(reads)
        /\ \A i \in 1..Len(log) :
              /\ log[i].op = "build" => (i >= 2 /\ log[i - 1] = Event("read", log[i].cat))
              /\ log[i].op = "write" => (i >= 2 /\ log[i - 1] = Event("build", log[i].cat))

\* C15 witness: main returned with rereduce false after loading a category and
\* then reading, building and writing one that sorts before it.
SortedWithinEachLoopWitness ==
    /\ pc = "done"
    /\ ~rereduce
    /\ \E i, j \in 1..Len(log) :
          /\ i < j
          /\ log[i].op = "load"
          /\ log[j].op = "write"
          /\ log[i].cat > log[j].cat

\* C16 (every raw-input category is resolved): when main returns, every key of
\* 'calib' has an entry in the result mapping, a frame or the marker None.
EveryRawCategoryResolved ==
    pc = "done" => \A c \in DOMAIN calib_fpath : c \in DOMAIN master_ccddata

\* C17 (per-category outcome is terminal): once a category's entry holds a
\* frame, the entry is not assigned again in the invocation: it keeps its value
\* and the category is not built again.
OutcomeIsTerminal ==
    [][\A c \in DOMAIN master_ccddata :
          (pc \notin {"done", "aborted"} /\ master_ccddata[c] # None) =>
              /\ c \in DOMAIN master_ccddata'
              /\ master_ccddata'[c] = master_ccddata[c]
              /\ CountIn(log', "build", c) = CountIn(log, "build", c)]_vars

\* C18 (a corrupt persisted file is fatal): with rereduce false, when a
\* category's persisted path names an existing '.pkl' file that cannot be
\* unpickled, main never returns; the attempt to load the file ends the
\* invocation with the unpickling error; the category is never read raw nor
\* built, gets no entry, and its file is left as it was.
CorruptCacheIsFatal ==
    \A c \in Category :
        (Running /\ ~rereduce /\ HasPklPath(c) /\ disk0[c] = Garbage) =>
            /\ pc # "done"
            /\ Count("load", c) > 0 =>
                  (pc = "aborted" /\ err = Error("UnpicklingError", c))
            /\ Count("read", c) = 0
            /\ Count("build", c) = 0
            /\ Count("write", c) = 0
            /\ c \notin DOMAIN master_ccddata
            /\ disk[c] = Garbage

\* C18 witness: with rereduce false, an invocation ended on the unpickling
\* error of a category whose raw file was there to build from, after another
\* category's load attempt.
CorruptCacheIsFatalWitness ==
    /\ pc = "aborted"
    /\ ~rereduce
    /\ \E c \in Category :
          /\ err = Error("UnpicklingError", c)
          /\ UsableRaw(c)
          /\ disk[c] = Garbage
          /\ \E d \in DOMAIN master_ccddata : d < c

\* The raw reader, the builder or a persisted write was invoked.
IsWork(e) == e.op \in {"read", "build", "write"}

\* The invocation ended inside the load loop.
AbortedWhileLoading ==
    pc = "aborted" /\ err.kind \in {"AttributeError", "UnpicklingError"}

\* C19 (the load phase precedes all builds): while a load attempt is still to
\* come or has just ended the invocation, the raw reader, the builder and the
\* persisted write have not been invoked for any category and every file is
\* as it was on entry; once one of them has been invoked, every category of
\* master_fpath has had its load attempt, and no load follows in the log.
LoadPhaseFirst ==
    /\ (pc = "load" \/ AbortedWhileLoading) =>
          /\ \A i \in 1..Len(log) : ~IsWork(log[i])
          /\ disk = disk0
    /\ (\E i \in 1..Len(log) : IsWork(log[i])) =>
          /\ pc \in {"build", "rereduce", "done", "aborted"}
          /\ DOMAIN master_fpath \subseteq DOMAIN master_ccddata
    /\ \A i, j \in 1..Len(log) :
          (IsWork(log[i]) /\ log[j].op = "load") => j < i

\* C19 witness: an invocation ended on the corrupt persisted file of one
\* category, after the load attempt of another category had missed with a raw
\* file to build from and a '.pkl' path to write to; no file was written.
LoadPhaseFirstWitness ==
    /\ AbortedWhileLoading
    /\ disk = disk0
    /\ \E c, d \in Category :
          /\ d < c
          /\ err = Error("UnpicklingError", c)
          /\ HasPklPath(d)
          /\ disk0[d] = NoFile
          /\ UsableRaw(d)
          /\ d \in DOMAIN master_ccddata
          /\ master_ccddata[d] = None

\* A value main may leave in the mapping: a frame, or None for "absent".
IsFrame(v) == v.t = "ccddata"

\* C20 (cache domain): when main returns, for either rereduce value, the keys
\* of master_ccddata are the keys of master_fpath, and each is mapped to a
\* frame or to None.
CacheDomain ==
    pc = "done" =>
        /\ DOMAIN master_ccddata = DOMAIN master_fpath
        /\ \A c \in DOMAIN master_ccddata :
              master_ccddata[c] = None \/ IsFrame(master_ccddata[c])

\* C20 witness: main has returned with rereduce true after rebuilding a
\* category of calib_fpath, and the mapping also holds a category that only
\* master_fpath names.
CacheDomainWitness ==
    /\ pc = "done"
    /\ rereduce
    /\ \E c \in DOMAIN calib_fpath :
          /\ Count("build", c) > 0
          /\ IsFrame(master_ccddata[c])
    /\ \E d \in DOMAIN master_fpath \ DOMAIN calib_fpath :
          d \in DOMAIN master_ccddata

====
